---- MODULE Spec2Model ----
(***************************************************************************)
(* Model of lib/lrgasp/metadata_validate.py: the Field descriptor, the     *)
(* scalar and list checkers, the format validators and check_from_defs.    *)
(*                                                                         *)
(* Python values are records [t, v, items]: t is the value's type name, v  *)
(* its content as text (a float holds its number in the shortest form, so  *)
(* FloatV("3") is 3.0), items the elements of a list.  Exceptions are      *)
(* records naming the exception class, the message template, which parts   *)
(* the message carries, and the chained cause ("raise ... from ex").       *)
(***************************************************************************)
EXTENDS Integers, Sequences, FiniteSets, TLC

VARIABLES
    orig,                \* the target record as passed to check_from_defs
    target,              \* the target record (obj), mutated by setattr
    k,                   \* number of schema fields check_from_defs has consumed
    status,              \* "running" | "returned" | "raised"
    last,                \* the last loop iteration: field, value read, outcome
    ret,                 \* per name: the value most recently written by setattr
    lrgaspIsValueError,  \* whether lrgasp.LrgaspException (imported at line 6,
                         \* defined in another file) derives from ValueError
    call                 \* a direct call of one function: fn, field, arg, out

vars == <<orig, target, k, status, last, ret, lrgaspIsValueError, call>>

----------------------------------------------------------------------------
(* Bounds *)

\* fields consumed by one check_from_defs call
MaxFields == 2
\* length of the lists held by the target record of the dispatcher
MaxRecLen == 1
\* length of the lists given to _check_list directly
MaxLen == 2

----------------------------------------------------------------------------
(* Python values *)

Str(s)    == [t |-> "str",      v |-> s,      items |-> <<>>]
IntV(s)   == [t |-> "int",      v |-> s,      items |-> <<>>]
FloatV(s) == [t |-> "float",    v |-> s,      items |-> <<>>]
BoolV(s)  == [t |-> "bool",     v |-> s,      items |-> <<>>]
DictV(s)  == [t |-> "dict",     v |-> s,      items |-> <<>>]
ListV(q)  == [t |-> "list",     v |-> "",     items |-> q]
NoneV     == [t |-> "NoneType", v |-> "None", items |-> <<>>]
\* no value: the attribute is not on the record / the call raised
Absent    == [t |-> "absent",   v |-> "",     items |-> <<>>]

SeqsUpTo(S, n) == UNION {[1..m -> S] : m \in 0..n}

\* isinstance(val, dtype); bool is a subclass of int
IsInstance(val, dtype) ==
    \/ val.t = dtype
    \/ dtype = "int" /\ val.t = "bool"

\* len(val), which the code only compares with 0: 0 for an empty value, the
\* length of a list, 1 for other non-empty text and mappings, and -1 for
\* "object of type ... has no len()" (TypeError)
PyLen(val) ==
    CASE val.t = "str"  -> IF val.v = "" THEN 0 ELSE 1
      [] val.t = "list" -> Len(val.items)
      [] val.t = "dict" -> IF val.v = "{}" THEN 0 ELSE 1
      [] OTHER          -> -1

\* the number a numeric value stands for, in canonical text
NumKey(val) ==
    CASE val.t = "int"   -> val.v
      [] val.t = "float" -> val.v
      [] val.t = "bool"  -> IF val.v = "True" THEN "1" ELSE "0"
      [] OTHER           -> "nan"

IsNumeric(val) == val.t \in {"int", "float", "bool"}

\* a == b in Python: numbers compare by value across int, float and bool
PyEq(a, b) ==
    IF IsNumeric(a) /\ IsNumeric(b) THEN NumKey(a) = NumKey(b) ELSE a = b

----------------------------------------------------------------------------
(* Outcomes of a call: a returned value or a raised exception *)

Return(val) ==
    [exc |-> "none", kind |-> "", desc |-> FALSE, name |-> "", dtype |-> "",
     value |-> Absent, idx |-> -1, cause |-> "none", val |-> val]

\* exc: exception class; kind: message template; desc: the message starts
\* with the description label; name, dtype, value, idx: the field name, type
\* name, offending value and list index the message carries ("" / Absent /
\* -1 when it carries none); cause: class of the chained exception
Raise(exc, kind, desc, name, dtype, value, idx, cause) ==
    [exc |-> exc, kind |-> kind, desc |-> desc, name |-> name, dtype |-> dtype,
     value |-> value, idx |-> idx, cause |-> cause, val |-> Absent]

\* an exception raised by Python itself or by a callee, passing through
Propagate(exc, kind, value) ==
    Raise(exc, kind, FALSE, "", "", value, -1, "none")

\* "except ValueError" catches ValueError and its subclasses
IsValueError(exc) ==
    \/ exc = "ValueError"
    \/ exc = "LrgaspException" /\ lrgaspIsValueError

----------------------------------------------------------------------------
(* Field descriptor, lines 8-19 *)

NoneName == "None"

\* the namedtuple built by super().__new__: the arguments, stored as given
FieldTuple(name, dtype, element_dtype, allow_empty, optional, validator) ==
    [name |-> name, dtype |-> dtype, element_dtype |-> element_dtype,
     allow_empty |-> allow_empty, optional |-> optional, validator |-> validator]

\* Field.__new__: raises for a list without element_dtype, else constructs.
\* The message is not an f-string, so it does not carry the field's name.
FieldUnchecked(f) == Return(Absent)

Field(f) ==
    IF f.dtype = "list" /\ f.element_dtype = NoneName
    THEN Raise("LrgaspException", "must specify element_dtype", FALSE, "", "",
               Absent, -1, "none")
    ELSE Return(Absent)

----------------------------------------------------------------------------
(* Type conversion, lines 21-28 *)

_should_convert(dtype) == dtype \notin {"str", "int", "dict"}

\* float(s) for a str: the number parsed, or ValueError
FloatOfStr(s) ==
    CASE s = "3"   -> Return(FloatV("3"))
      [] s = "3.0" -> Return(FloatV("3"))
      [] s = "4"   -> Return(FloatV("4"))
      [] OTHER     -> Propagate("ValueError", "could not convert string to float", Str(s))

\* bool(val): Python truth value, never raises
Truth(val) ==
    CASE val.t = "str"      -> val.v # ""
      [] val.t = "list"     -> Len(val.items) > 0
      [] val.t = "dict"     -> val.v # "{}"
      [] val.t = "NoneType" -> FALSE
      [] val.t = "bool"     -> val.v = "True"
      [] OTHER              -> val.v # "0"

\* dtype(val): the constructor of a converted kind
Construct(dtype, val) ==
    CASE dtype = "float" ->
           CASE val.t = "str"   -> FloatOfStr(val.v)
             [] val.t = "int"   -> Return(FloatV(val.v))
             [] val.t = "float" -> Return(val)
             [] val.t = "bool"  -> Return(FloatV(NumKey(val)))
             [] OTHER           -> Propagate("TypeError", "float() argument", val)
      [] dtype = "bool"  -> Return(BoolV(IF Truth(val) THEN "True" ELSE "False"))
      [] dtype = NoneName ->
           Propagate("TypeError", "'NoneType' object is not callable", val)

\* the try/except of lines 25-28 around the constructor's outcome r
ConvertExcept(r, field, dtype, val) ==
    IF r.exc = "none" THEN r
    ELSE IF IsValueError(r.exc)
         THEN Raise("LrgaspException", "is not a valid", TRUE, field.name, dtype,
                    val, -1, r.exc)
         ELSE r

_convert_type(field, dtype, val) ==
    ConvertExcept(Construct(dtype, val), field, dtype, val)

----------------------------------------------------------------------------
(* Validators, lines 89-105 *)

\* what validators.email accepts
ValidEmails == {"user@example.com"}
\* what validators.url(val, public=True) accepts
PublicUrls == {"http://example.com", "ftp://example.com"}
\* strings for which val.startswith("http:") or val.startswith("https:")
HttpPrefixed == {"http://example.com", "http://localhost"}
\* strings matching ^[a-fA-F0-9]{32}$
Md5Strings == {"d41d8cd98f00b204e9800998ecf8427e"}

\* re.search on a value that is not text raises TypeError; the library
\* validators are only ever given text here
NotText(val) == Propagate("TypeError", "expected string", val)

validate_email(val) ==
    IF val.t # "str" THEN NotText(val)
    ELSE IF val.v \notin ValidEmails
         THEN Raise("LrgaspException", "invalid email address", FALSE, "", "",
                    val, -1, "none")
         ELSE Return(NoneV)

validate_url(val) ==
    IF val.t # "str" THEN NotText(val)
    ELSE IF val.v \notin PublicUrls
         THEN Raise("LrgaspException", "invalid URL", FALSE, "", "", val, -1, "none")
         ELSE Return(NoneV)

\* lines 99-100, after validate_url's outcome r
HttpPrefixCheck(r, val) ==
    IF r.exc # "none" THEN r
    ELSE IF val.v \notin HttpPrefixed
         THEN Raise("LrgaspException", "must be an HTTP URL", FALSE, "", "",
                    val, -1, "none")
         ELSE Return(NoneV)

validate_http_url(val) == HttpPrefixCheck(validate_url(val), val)

validate_md5(val) ==
    IF val.t # "str" THEN NotText(val)
    ELSE IF val.v \notin Md5Strings
         THEN Raise("LrgaspException", "MD5 must be a 128-bit hexadecimal number",
                    FALSE, "", "", val, -1, "none")
         ELSE Return(NoneV)

\* values a schema author's own validator rejects
PluginRejects == {Str("a"), Str(""), FloatV("3")}

\* a plugged-in validator that rejects by raising ValueError
plugin_value_error(val) ==
    IF val \in PluginRejects
    THEN Propagate("ValueError", "rejected", val)
    ELSE Return(NoneV)

\* a plugged-in validator that rejects by raising another exception class
plugin_key_error(val) ==
    IF val \in PluginRejects
    THEN Propagate("KeyError", "rejected", val)
    ELSE Return(NoneV)

\* field.validator(val), line 32
CallValidator(validator, val) ==
    CASE validator = "validate_email"     -> validate_email(val)
      [] validator = "validate_url"       -> validate_url(val)
      [] validator = "validate_http_url"  -> validate_http_url(val)
      [] validator = "validate_md5"       -> validate_md5(val)
      [] validator = "plugin_value_error" -> plugin_value_error(val)
      [] validator = "plugin_key_error"   -> plugin_key_error(val)

\* the try/except of lines 31-34 around the validator's outcome r
ValidateExcept(r, field, val) ==
    IF r.exc = "none" THEN r
    ELSE IF IsValueError(r.exc)
         THEN Raise("LrgaspException", "is not valid", TRUE, field.name, "",
                    val, -1, r.exc)
         ELSE r

_validate_value(field, val) ==
    ValidateExcept(CallValidator(field.validator, val), field, val)

----------------------------------------------------------------------------
(* Scalar and list checkers, lines 36-67 *)

\* a raised outcome v stands; otherwise the outcome c
Unless(v, c) == IF v.exc # "none" THEN v ELSE c

\* lines 42-44 and 52-54: validate the type-checked outcome c, return its value
Validated(field, c) ==
    IF c.exc # "none" THEN c
    ELSE IF field.validator # NoneName
         THEN Unless(_validate_value(field, c.val), c)
         ELSE c

\* lines 38-41
ScalarTyped(field, val) ==
    IF _should_convert(field.dtype)
    THEN _convert_type(field, field.dtype, val)
    ELSE IF ~IsInstance(val, field.dtype)
         THEN Raise("LrgaspException", "must be a", TRUE, field.name,
                    field.dtype, Absent, -1, "none")
         ELSE Return(val)

_check_scalar(field, val) == Validated(field, ScalarTyped(field, val))

\* lines 48-51; i is the Python (0-based) index
ElementTyped(field, i, val) ==
    IF _should_convert(field.element_dtype)
    THEN _convert_type(field, field.element_dtype, val)
    ELSE IF ~IsInstance(val, field.element_dtype)
         THEN Raise("LrgaspException", "must be a", TRUE, field.name,
                    field.element_dtype, Absent, i, "none")
         ELSE Return(val)

_check_list_element(field, i, val) == Validated(field, ElementTyped(field, i, val))

\* "ival in new_vals"
InList(ival, new_vals) == \E j \in 1..Len(new_vals) : PyEq(new_vals[j], ival)

RECURSIVE CheckListLoop(_, _, _, _)
RECURSIVE ListAccept(_, _, _, _, _)

\* duplicates looked for among the raw inputs instead of new_vals
ListAcceptRaw(field, vals, i, new_vals, e) ==
    IF e.exc # "none" THEN e
    ELSE IF \E j \in 1..i : vals[j] = vals[i + 1]
         THEN Raise("LrgaspException", "duplicate value", TRUE, field.name,
                    "", e.val, i, "none")
         ELSE CheckListLoop(field, vals, i + 1, Append(new_vals, e.val))

\* lines 62-66 for the checked element e at Python index i (the prints of
\* lines 63-64 go to standard output and change no state)
ListAccept(field, vals, i, new_vals, e) ==
    IF e.exc # "none" THEN e
    ELSE IF InList(e.val, new_vals)
         THEN Raise("LrgaspException", "duplicate value", TRUE, field.name,
                    "", e.val, i, "none")
         ELSE CheckListLoop(field, vals, i + 1, Append(new_vals, e.val))

\* the for loop of lines 60-67 from Python index i on
CheckListLoop(field, vals, i, new_vals) ==
    IF i >= Len(vals) THEN Return(ListV(new_vals))
    ELSE ListAccept(field, vals, i, new_vals,
                    _check_list_element(field, i, vals[i + 1]))

_check_list(field, vals) ==
    IF vals.t # "list"
    THEN Raise("LrgaspException", "must be a list", TRUE, field.name, "list",
               Absent, -1, "none")
    ELSE CheckListLoop(field, vals.items, 0, <<>>)

----------------------------------------------------------------------------
(* Dispatcher, lines 69-87.  Each function yields its outcome, the record *)
(* as it leaves it, and the value it passed to setattr (Absent: none).    *)

Leave(out, obj) == [out |-> out, obj |-> obj, set |-> Absent]

\* setattr(obj, name, val)
SetAttr(obj, name, val) == [obj EXCEPT ![name] = val]

\* a failed check clears the attribute
WriteBackClear(field, obj, r) ==
    IF r.exc # "none"
    THEN [out |-> r, obj |-> SetAttr(obj, field.name, NoneV), set |-> Absent]
    ELSE [out |-> Return(NoneV), obj |-> SetAttr(obj, field.name, r.val),
          set |-> r.val]

\* line 77 after the checker's outcome r
WriteBack(field, obj, r) ==
    IF r.exc # "none" THEN Leave(r, obj)
    ELSE [out |-> Return(NoneV), obj |-> SetAttr(obj, field.name, r.val),
          set |-> r.val]

\* the emptiness test made whatever allow_empty says
PresentCheckedStrict(field, obj, val) ==
    IF PyLen(val) < 0
    THEN Leave(Propagate("TypeError", "has no len()", val), obj)
    ELSE IF PyLen(val) = 0
    THEN Leave(Raise("LrgaspException", "must be a non-empty", TRUE, field.name,
                     field.dtype, Absent, -1, "none"), obj)
    ELSE WriteBack(field, obj, IF field.dtype = "list" THEN _check_list(field, val)
                               ELSE _check_scalar(field, val))

\* lines 71-76 for the value val read at line 70
PresentChecked(field, obj, val) ==
    IF ~field.allow_empty /\ PyLen(val) < 0
    THEN Leave(Propagate("TypeError", "has no len()", val), obj)
    ELSE IF ~field.allow_empty /\ PyLen(val) = 0
    THEN Leave(Raise("LrgaspException", "must be a non-empty", TRUE, field.name,
                     field.dtype, Absent, -1, "none"), obj)
    ELSE WriteBack(field, obj, IF field.dtype = "list" THEN _check_list(field, val)
                               ELSE _check_scalar(field, val))

_check_present_field(field, obj) == PresentChecked(field, obj, obj[field.name])

\* a missing field is never an error
_check_missing_field_lenient(field, obj) == Leave(Return(NoneV), obj)

_check_missing_field(field, obj) ==
    IF ~field.optional
    THEN Leave(Raise("LrgaspException", "is required", TRUE, field.name, "",
                     Absent, -1, "none"), obj)
    ELSE Leave(Return(NoneV), obj)

\* "field.name in obj"
HasField(obj, name) == obj[name] # Absent

_check_field(field, obj) ==
    IF HasField(obj, field.name)
    THEN _check_present_field(field, obj)
    ELSE _check_missing_field(field, obj)

----------------------------------------------------------------------------
(* Inputs *)

Names == {"x", "y"}

\* Field(...) argument tuples over the given choices
FieldArgs(names, dtypes, element_dtypes, validators) ==
    {FieldTuple(n, d, e, a, o, v) :
        n \in names, d \in dtypes, e \in element_dtypes,
        a \in BOOLEAN, o \in BOOLEAN, v \in validators}

\* the descriptors that Field.__new__ constructs from a set of arguments
Constructed(args) == {f \in args : Field(f).exc = "none"}

NoField == FieldTuple("", "", "", FALSE, FALSE, "")

\* values the attributes of a target record hold
RecValues ==
    {Str(""), Str("a"), Str("3"), Str("d41d8cd98f00b204e9800998ecf8427e"),
     IntV("3"), NoneV, DictV("{}")}
        \cup {ListV(q) : q \in SeqsUpTo({Str("3")}, MaxRecLen)}

Records == [Names -> RecValues \cup {Absent}]

\* schema fields of the dispatcher runs: scalars without element_dtype, lists
\* with one
SchemaValidators == {NoneName, "plugin_value_error", "validate_md5"}

SchemaFields ==
    Constructed(FieldArgs(Names, {"str", "int", "dict", "float"}, {NoneName},
                          SchemaValidators)
                \cup FieldArgs(Names, {"list"}, {"str", "float"},
                               SchemaValidators))

----------------------------------------------------------------------------
(* check_from_defs, lines 107-110: one loop iteration per step *)

NoStep == [field |-> NoField, before |-> Absent, out |-> Return(Absent),
           set |-> Absent]
Idle == [fn |-> "idle", field |-> NoField, arg |-> Absent, out |-> Return(Absent)]

\* the error of a field is swallowed and the loop goes on
AfterFieldContinue(out) == "running"

\* an exception raised by _check_field leaves the for loop and the function
AfterField(out) == IF out.exc = "none" THEN "running" ELSE "raised"

\* a failed iteration restores the record as it was passed in
IterationRollback(field, r) ==
    /\ target' = IF r.out.exc # "none" THEN orig ELSE r.obj
    /\ status' = AfterField(r.out)
    /\ last' = [field |-> field, before |-> target[field.name],
                out |-> r.out, set |-> r.set]
    /\ ret' = IF r.set # Absent THEN [ret EXCEPT ![field.name] = r.set] ELSE ret

\* the effect of one loop iteration whose _check_field call yielded r
Iteration(field, r) ==
    /\ target' = r.obj
    /\ status' = AfterField(r.out)
    /\ last' = [field |-> field, before |-> target[field.name],
                out |-> r.out, set |-> r.set]
    /\ ret' = IF r.set # Absent THEN [ret EXCEPT ![field.name] = r.set] ELSE ret

\* the loop body for the next field of the schema
CheckFromDefsStep(field) ==
    /\ status = "running"
    /\ k < MaxFields
    /\ Iteration(field, _check_field(field, target))
    /\ k' = k + 1
    /\ UNCHANGED <<orig, lrgaspIsValueError, call>>

CheckFromDefsField == \E field \in SchemaFields : CheckFromDefsStep(field)

\* the schema is exhausted: check_from_defs returns
CheckFromDefsReturn ==
    /\ status = "running"
    /\ status' = "returned"
    /\ UNCHANGED <<orig, target, k, last, ret, lrgaspIsValueError, call>>

Init ==
    /\ orig \in Records
    /\ target = orig
    /\ k = 0
    /\ status = "running"
    /\ last = NoStep
    /\ ret = [n \in Names |-> Absent]
    /\ lrgaspIsValueError \in BOOLEAN
    /\ call = Idle

Next == CheckFromDefsField \/ CheckFromDefsReturn

Spec == Init /\ [][Next]_vars

----------------------------------------------------------------------------
(* Direct calls of the checkers: _check_scalar, _check_list, _validate_value *)

Strings ==
    {"", "a", "3", "3.0", "4", "d41d8cd98f00b204e9800998ecf8427e",
     "user@example.com", "http://example.com", "ftp://example.com",
     "http://localhost"}

ScalarInputs ==
    {Str(s) : s \in Strings}
        \cup {IntV("3"), IntV("0"), FloatV("3"), BoolV("True"), NoneV,
              DictV("{}"), DictV("{'k': 1}"), ListV(<<>>), ListV(<<Str("3")>>)}

ScalarFields ==
    Constructed(FieldArgs({"x"}, {"str", "int", "dict", "float", "bool"},
                          {NoneName},
                          {NoneName, "plugin_value_error", "validate_md5"}))

Elements ==
    {Str("a"), Str("3"), Str("3.0"), Str("4"), IntV("3"), IntV("1"),
     BoolV("True"), NoneV}

ListInputs ==
    {ListV(q) : q \in SeqsUpTo(Elements, MaxLen)} \cup {Str("a"), NoneV}

ListFields ==
    Constructed(FieldArgs({"x"}, {"list"}, {"str", "int", "float", "bool"},
                          {NoneName, "plugin_value_error"}))

\* the values _check_scalar hands to the validator: text for a str field,
\* the converted number for a float field
ValidateInputs(field) ==
    IF field.dtype = "str" THEN {Str(s) : s \in Strings}
    ELSE {FloatV("3"), FloatV("4")}

\* the library validators (email, url) are attached to text fields only
ValidateFields ==
    Constructed(FieldArgs(Names, {"str"}, {NoneName},
                          {"validate_email", "validate_url", "validate_http_url",
                           "validate_md5", "plugin_value_error",
                           "plugin_key_error"})
                \cup FieldArgs(Names, {"float"}, {NoneName},
                               {"validate_md5", "plugin_value_error",
                                "plugin_key_error"}))

Called(fn, field, arg, out) ==
    /\ call' = [fn |-> fn, field |-> field, arg |-> arg, out |-> out]
    /\ UNCHANGED <<orig, target, k, status, last, ret, lrgaspIsValueError>>

\* one call per run, from the idle state
CallCheckScalar ==
    /\ call = Idle
    /\ \E field \in ScalarFields, val \in ScalarInputs :
          Called("_check_scalar", field, val, _check_scalar(field, val))

CallCheckList ==
    /\ call = Idle
    /\ \E field \in ListFields, vals \in ListInputs :
          Called("_check_list", field, vals, _check_list(field, vals))

CallValidateValue ==
    /\ call = Idle
    /\ \E field \in ValidateFields :
          \E val \in ValidateInputs(field) :
              Called("_validate_value", field, val, _validate_value(field, val))

NoRecord == [n \in Names |-> Absent]

InitCalls ==
    /\ orig = NoRecord
    /\ target = NoRecord
    /\ k = 0
    /\ status = "returned"
    /\ last = NoStep
    /\ ret = NoRecord
    /\ lrgaspIsValueError \in BOOLEAN
    /\ call = Idle

NextCalls == CallCheckScalar \/ CallCheckList \/ CallValidateValue

SpecCalls == InitCalls /\ [][NextCalls]_vars

----------------------------------------------------------------------------
(* Schema authoring: Field(...) is called, and what it constructs is then *)
(* used as the next field of a check_from_defs run                        *)

AuthorArgs ==
    FieldArgs(Names, {"str", "int", "float", "list"}, {NoneName, "str", "float"},
              {NoneName, "plugin_value_error"})

AuthorRecords == [Names -> {Str("3"), Absent}]

\* Field(name, dtype, element_dtype=..., ...) is evaluated
NewField ==
    /\ status = "running"
    /\ k < MaxFields
    /\ call.fn # "Field"
    /\ \E args \in AuthorArgs :
          call' = [fn |-> "Field", field |-> args, arg |-> Absent,
                   out |-> Field(args)]
    /\ UNCHANGED <<orig, target, k, status, last, ret, lrgaspIsValueError>>

\* the constructed descriptor is checked against the record
UseField ==
    /\ call.fn = "Field"
    /\ call.out.exc = "none"
    /\ status = "running"
    /\ k < MaxFields
    /\ Iteration(call.field, _check_field(call.field, target))
    /\ k' = k + 1
    /\ call' = Idle
    /\ UNCHANGED <<orig, lrgaspIsValueError>>

InitField ==
    /\ orig \in AuthorRecords
    /\ target = orig
    /\ k = 0
    /\ status = "running"
    /\ last = NoStep
    /\ ret = NoRecord
    /\ lrgaspIsValueError \in BOOLEAN
    /\ call = Idle

NextField == NewField \/ UseField

SpecField == InitField /\ [][NextField]_vars

----------------------------------------------------------------------------
(* Properties *)

\* the checker _check_present_field hands the value to
Checker(field, val) ==
    IF field.dtype = "list" THEN _check_list(field, val) ELSE _check_scalar(field, val)

Stepped == k > 0
FieldName == last.field.name

\* C1: check_from_defs either returns or raises the engine's own exception
\* (LrgaspException); no failure while checking a field surfaces as another
\* kind of error.
C1_OnlyEngineErrors ==
    status = "raised" => last.out.exc = "LrgaspException"

\* C2: check_from_defs is fail-fast in schema order: the first field whose
\* check fails raises, its error is the one that leaves the call, and after
\* it no field is checked or written.
C2_FailFast ==
    [][/\ (k' = k + 1 /\ last'.out.exc # "none") => status' = "raised"
       /\ status = "raised" =>
             /\ status' = "raised" /\ k' = k /\ last' = last /\ target' = target
             /\ last.out.exc # "none"
       /\ status' = "returned" => last'.out.exc = "none"]_vars

\* C2 witness: the call raised at its first field while another field of the
\* record, not reached, is invalid as well and keeps its value.
C2_Witness ==
    /\ status = "raised" /\ k = 1
    /\ \E f \in SchemaFields :
          /\ f.name # FieldName
          /\ _check_field(f, target).out.exc # "none"
          /\ target[f.name] = orig[f.name]
          /\ orig[f.name] # Absent

\* C3: a field absent from the target raises "field is required", naming the
\* field, if and only if it is not optional; an optional one is skipped and
\* stays absent.
C3_MissingField ==
    (Stepped /\ last.before = Absent) =>
        IF last.field.optional
        THEN /\ last.out.exc = "none"
             /\ status # "raised"
             /\ target[FieldName] = Absent
        ELSE /\ last.out = Raise("LrgaspException", "is required", TRUE, FieldName,
                                 "", Absent, -1, "none")
             /\ status = "raised"
             /\ target[FieldName] = Absent

C3_Witness ==
    /\ Stepped /\ last.before = Absent /\ ~last.field.optional
    /\ status = "raised" /\ last.out.kind = "is required"

IsEmptyValue == Stepped /\ last.before # Absent /\ PyLen(last.before) = 0

NonEmptyError ==
    Raise("LrgaspException", "must be a non-empty", TRUE, FieldName,
          last.field.dtype, Absent, -1, "none")

\* C4 as stated: a present value of length zero raises "must be a non-empty
\* <kind>" when allow_empty is false, and with allow_empty true the field
\* succeeds with its value unchanged.
C4_EmptyAllowedSucceeds ==
    IsEmptyValue =>
        IF ~last.field.allow_empty
        THEN last.out = NonEmptyError /\ target[FieldName] = last.before
        ELSE last.out.exc = "none" /\ target[FieldName] = last.before

\* C4 amended: a present value of length zero raises "must be a non-empty
\* <kind>" when allow_empty is false, whatever its type and validator; with
\* allow_empty true the emptiness test is skipped and the value goes through
\* the field's checker: its error is raised and the value kept, or its result
\* is written back, which for a text, integer, mapping or list field is the
\* original value.
C4_EmptyValue ==
    IsEmptyValue =>
        IF ~last.field.allow_empty
        THEN /\ last.out = NonEmptyError
             /\ target[FieldName] = last.before
             /\ last.set = Absent
        ELSE IF Checker(last.field, last.before).exc # "none"
             THEN /\ last.out = Checker(last.field, last.before)
                  /\ last.out.kind # "must be a non-empty"
                  /\ target[FieldName] = last.before
             ELSE /\ last.out.exc = "none"
                  /\ target[FieldName] = Checker(last.field, last.before).val
                  /\ (last.field.dtype \in {"str", "int", "dict", "list"}
                        => target[FieldName] = last.before)

C4_Witness ==
    /\ IsEmptyValue /\ last.field.allow_empty
    /\ last.out.exc = "none" /\ target[FieldName] = last.before

\* C5: a validator's rejection of a value is raised as LrgaspException
\* "<description> field <name> is not valid: <value>", wrapping the
\* validator's own failure, for the built-in and for plugged-in validators.
C5_RejectionWrapped ==
    (/\ call.fn = "_validate_value"
     /\ CallValidator(call.field.validator, call.arg).exc # "none") =>
        /\ call.out.exc = "LrgaspException"
        /\ call.out.kind = "is not valid"
        /\ call.out.desc
        /\ call.out.name = call.field.name
        /\ call.out.value = call.arg
        /\ call.out.cause # "none"

\* the converted form of each element of the list given to _check_list
Converted(i) == _check_list_element(call.field, i - 1, call.arg.items[i])
\* positions whose converted form equals that of an earlier position
DupIndexes ==
    {i \in 1..Len(call.arg.items) :
        \E j \in 1..(i - 1) : PyEq(Converted(j).val, Converted(i).val)}
FirstDup == CHOOSE i \in DupIndexes : \A j \in DupIndexes : i <= j

\* C6: for a list whose elements all pass type check and validation,
\* _check_list raises "duplicate value" at the smallest index whose converted
\* element equals an earlier converted element, and otherwise returns the
\* converted elements, same length, same order.
C6_ListDuplicates ==
    (/\ call.fn = "_check_list"
     /\ call.arg.t = "list"
     /\ \A i \in 1..Len(call.arg.items) : Converted(i).exc = "none") =>
        IF DupIndexes # {}
        THEN call.out = Raise("LrgaspException", "duplicate value", TRUE,
                              call.field.name, "", Converted(FirstDup).val,
                              FirstDup - 1, "none")
        ELSE call.out = Return(ListV([i \in 1..Len(call.arg.items) |->
                                          Converted(i).val]))

\* C6 witness: two raw inputs that differ convert to the same value and are
\* reported as duplicates at index 1.
C6_Witness ==
    /\ call.fn = "_check_list"
    /\ call.out.kind = "duplicate value"
    /\ call.out.idx = 1
    /\ call.arg.items[1] # call.arg.items[2]

\* C7: _check_scalar returns the input itself for a str, int or dict field
\* whose value is of that kind and raises "must be a <kind>" otherwise; for
\* any other kind it returns the constructor's value and raises "is not a
\* valid <kind>: <value>" when the constructor cannot convert.
C7_ScalarTypes ==
    (call.fn = "_check_scalar" /\ call.field.validator = NoneName) =>
        IF call.field.dtype \in {"str", "int", "dict"}
        THEN IF IsInstance(call.arg, call.field.dtype)
             THEN call.out = Return(call.arg)
             ELSE call.out = Raise("LrgaspException", "must be a", TRUE,
                                   call.field.name, call.field.dtype, Absent, -1,
                                   "none")
        ELSE IF Construct(call.field.dtype, call.arg).exc = "none"
             THEN call.out = Construct(call.field.dtype, call.arg)
             ELSE /\ call.out.exc = "LrgaspException"
                  /\ call.out.kind = "is not a valid"
                  /\ call.out.dtype = call.field.dtype
                  /\ call.out.value = call.arg

IllFormed(f) == f.dtype = "list" /\ f.element_dtype = NoneName

\* C8: Field(...) raises LrgaspException if and only if dtype is list and no
\* element_dtype is given, every other combination constructs, and no
\* descriptor a record is checked against is a list without element_dtype.
C8_Construction ==
    /\ call.fn = "Field" =>
          /\ (call.out.exc # "none") <=> IllFormed(call.field)
          /\ call.out.exc \in {"none", "LrgaspException"}
    /\ Stepped => ~IllFormed(last.field)

C8_Witness ==
    /\ call.fn = "Field"
    /\ call.out.exc = "LrgaspException"
    /\ ~Stepped

\* C9: check_from_defs does not roll back: when it raises, every field
\* checked before still holds the value its checker returned.
C9_NoRollback ==
    /\ status = "raised" =>
          \A n \in Names : ret[n] # Absent => target[n] = ret[n]
    /\ (Stepped /\ last.before # Absent /\ last.out.exc = "none") =>
          /\ last.set = Checker(last.field, last.before).val
          /\ ret[FieldName] = last.set

\* C9 witness: a failed call has left the record different from the one
\* passed in.
C9_Witness ==
    /\ status = "raised"
    /\ k = 2
    /\ target # orig
    /\ \E n \in Names : ret[n] # Absent /\ ret[n] # orig[n]

\* C10: the only change to the target is the overwrite of a field that the
\* schema names, that is present and that passed its emptiness check, type
\* check and validator; no field appears or disappears, a field never
\* checked keeps its value, and a failed check writes nothing.
C10_Frame ==
    [][/\ \A n \in Names :
            target'[n] # target[n] =>
                /\ k' = k + 1
                /\ last'.field.name = n
                /\ target[n] # Absent
                /\ last'.before = target[n]
                /\ last'.field.allow_empty \/ PyLen(target[n]) > 0
                /\ Checker(last'.field, target[n]).exc = "none"
                /\ target'[n] = Checker(last'.field, target[n]).val
                /\ last'.out.exc = "none"
       /\ \A n \in Names : (target'[n] = Absent) <=> (target[n] = Absent)
       /\ (k' = k + 1 /\ last'.out.exc # "none") => target' = target
       /\ \A n \in Names : (ret'[n] = Absent) => target'[n] = orig[n]]_vars

\* C10 witness: a call that converted one field and failed on another, whose
\* value stays as passed in.
C10_Witness ==
    /\ status = "raised"
    /\ FieldName \in Names
    /\ last.before # Absent
    /\ target[FieldName] = orig[FieldName]
    /\ \E n \in Names \ {FieldName} : target[n] # orig[n]

====
